---- MODULE Spec2Model ----
(***************************************************************************)
(* FileDatabase (simple-nd-base): a record store over one ndjson file.     *)
(* The model follows the class FileDatabase: every public method goes      *)
(* through lockAndExecute, which chains operations on the promise          *)
(* lockedPromise; updateRecords and deleteRecords rewrite the store        *)
(* through a temporary file that is swapped in by unlink + rename.         *)
(*                                                                         *)
(* One step of the model is one event-loop turn: the completion of one     *)
(* filesystem call (or of one caller-supplied asynchronous predicate)      *)
(* together with the synchronous code and microtasks that follow it, up to *)
(* the next filesystem call.                                               *)
(***************************************************************************)
EXTENDS Integers, Sequences, FiniteSets, TLC

(* ------------------------------ bounds --------------------------------- *)
MaxOps == 3        \* operations issued, overlapping in time
LiveOps == 2       \* the same, where every behaviour is followed to its end
SeqOps == 2        \* operations issued one after the other
MaxFails == 1      \* filesystem calls that fail by injection
MaxInitLen == 2    \* lines of the backing file at construction
MaxBatch == 2      \* records of one addRecords call
ReadOps == 1       \* operations issued on the longer backing files
MaxReadLen == 4    \* lines of the longer backing files

(* ------------------------------ codec ---------------------------------- *)
Records == {1, 2}
ParseError == 0
Undefined == 0
\* lines of a backing file: two spellings of record 1, record 2, a blank
\* (whitespace) line, and a line that is not JSON
Lines == {"1", " 1", "2", " ", "x"}

\* String.prototype.trim
Trim(line) ==
    CASE line = " " -> ""
      [] line = " 1" -> "1"
      [] OTHER -> line

\* JSON.parse: the record, or ParseError when it throws
JsonParse(line) ==
    CASE line \in {"1", " 1"} -> 1
      [] line = "2" -> 2
      [] OTHER -> ParseError

\* JSON.stringify
JsonStringify(rec) == IF rec = 1 THEN "1" ELSE "2"

(* ---------------------------- filesystem ------------------------------- *)
\* a file: absent, or a sequence of newline-terminated lines
Absent == [ex |-> FALSE, lines |-> <<>>]

\* fs.writeFile(name, contents, {flag: "a"})
FsAppend(f, block) == [ex |-> TRUE, lines |-> f.lines \o block]

\* fs.writeFile(name, contents)
FsWrite(block) == [ex |-> TRUE, lines |-> block]

RECURSIVE SeqsUpTo(_, _)
SeqsUpTo(S, n) ==
    IF n = 0 THEN {<<>>}
    ELSE LET shorter == SeqsUpTo(S, n - 1)
         IN  shorter \cup {Append(s, x) : s \in {t \in shorter : Len(t) = n - 1}, x \in S}

\* the records a scan of the lines hands to its visitor, when all parse
RECURSIVE RecordsOf(_)
RecordsOf(lines) ==
    IF lines = <<>> THEN <<>>
    ELSE IF Trim(Head(lines)) = "" THEN RecordsOf(Tail(lines))
    ELSE <<JsonParse(Head(lines))>> \o RecordsOf(Tail(lines))

VARIABLES
    file,           \* the backing file ndjsonFilename
    tmp,            \* the temporary file tmpFileName
    ops,            \* the operations issued so far, in issue order
    lockedPromise,  \* the field lockedPromise
    lastStarted,    \* the lockAndExecute call whose work started last
    fails,          \* injected filesystem failures so far
    scope           \* the callers of this behaviour: what they issue, and when

vars == <<file, tmp, ops, lockedPromise, lastStarted, fails, scope>>

(* ----------------------------- promises -------------------------------- *)
\* A promise is named by the lockAndExecute call that made it: the call of
\* operation op itself ("outer") or the forEachRecord call that
\* updateRecords / deleteRecords make inside their work ("scan").
\* caught: the promise is the .catch(() => {}) wrapper of that call's promise.
ResolvedPromise == [op |-> 0, part |-> "init", caught |-> TRUE]

IsDone(o) == o.pc = "done"

RawSettled(p) ==
    \/ p.op = 0
    \/ p.part = "outer" /\ IsDone(ops[p.op])
    \/ p.part = "scan" /\ ops[p.op].pc \in {"unlink", "rename", "rmTmp", "done"}

RawRejected(p) ==
    /\ p.op # 0
    /\ \/ p.part = "outer" /\ IsDone(ops[p.op]) /\ ops[p.op].failedAt # ""
       \/ p.part = "scan" /\ ops[p.op].failedAt \in {"open", "parse", "tmpAdd"}

PromiseState(p) ==
    IF ~RawSettled(p) THEN "pending"
    ELSE IF RawRejected(p) /\ ~p.caught THEN "rejected"
    ELSE "resolved"

\* the tracker is the call's promise itself, without .catch
NewLockedPromise_Uncaught(old, i, part, waitForUnlock) ==
    [op |-> i, part |-> part, caught |-> FALSE]

\* only a call that waited becomes the tracker
NewLockedPromise_OrderedOnly(old, i, part, waitForUnlock) ==
    IF waitForUnlock THEN [op |-> i, part |-> part, caught |-> TRUE] ELSE old

\* lockAndExecute: this.lockedPromise = promise.catch(() => {})
NewLockedPromise(old, i, part, waitForUnlock) ==
    [op |-> i, part |-> part, caught |-> TRUE]

\* the catch block swallows the error and never settles the promise
Reject_Swallowed(o, at) == [o EXCEPT !.pc = "hung", !.failedAt = at]

\* lockAndExecute: catch (err) { reject(err) }
Reject(o, at) == [o EXCEPT !.pc = "done", !.failedAt = at]

Resolve(o) == [o EXCEPT !.pc = "done"]

(* ---------------------------- operations ------------------------------- *)
Preds == SUBSET Records            \* a predicate, as the set it accepts

\* what a visitor given to forEachRecord returns on each record
Flags == {"true", "false", "undefined"}
Visitors == [Records -> Flags]
Batches == SeqsUpTo(Records, MaxBatch)

\* callers that await each call before the next: every input
SeqScope ==
    [seq |-> TRUE, maxOps |-> SeqOps, maxFails |-> MaxFails,
     preds |-> Preds, news |-> Records, batches |-> Batches]

\* callers that issue calls at any time: fewer inputs, and no failure other
\* than those the operations cause one another
RaceScope ==
    [seq |-> FALSE, maxOps |-> MaxOps, maxFails |-> 0,
     preds |-> {{1}}, news |-> {2},
     batches |-> {b \in Batches : b \in {<<1>>, <<2, 1>>}}]

LiveScope == [RaceScope EXCEPT !.maxOps = LiveOps, !.maxFails = MaxFails]

\* one call at a time, on longer files
ReadScope == [SeqScope EXCEPT !.maxOps = ReadOps]

AllDone == \A j \in DOMAIN ops : IsDone(ops[j])

\* an operation as issued: waiting on the tracker (ordered), not yet begun
NewOp(kind, waitForUnlock, P, N, R) ==
    [kind |-> kind, wait |-> waitForUnlock, P |-> P, N |-> N, R |-> R,
     pc |-> "waiting",
     awaiting |-> IF waitForUnlock THEN lockedPromise ELSE ResolvedPromise,
     tail |-> lastStarted,     \* the call that started last, at issue
     quiet |-> AllDone,        \* no operation was in flight at issue
     busy |-> {j \in DOMAIN ops : ops[j].pc \notin {"waiting", "done"}},
                               \* the operations doing their work at issue
     V |-> [rec \in Records |-> "true"],   \* the visitor (forEachRecord)
     handle |-> FALSE,         \* the read stream is open
     pre |-> Absent,           \* the backing file when the work began
     w |-> <<>>,               \* write calls still to make (addRecords)
     buf |-> <<>>,             \* lines read and not yet visited
     cur |-> Undefined,        \* the record being appended to the temp file
     isUpdated |-> FALSE,
     out |-> <<>>,             \* records collected by a read
     found |-> Undefined,
     failedAt |-> ""]

\* the block is built back to front
addRecordsWrites_Reversed(R) ==
    << [i \in 1..Len(R) |-> JsonStringify(R[Len(R) + 1 - i])] >>

\* one writeFile call per record
addRecordsWrites_PerRecord(R) ==
    IF R = <<>> THEN << <<>> >> ELSE [i \in 1..Len(R) |-> <<JsonStringify(R[i])>>]

\* addRecords: one writeFile call with the whole block newJson
addRecordsWrites(R) == << [i \in 1..Len(R) |-> JsonStringify(R[i])] >>

\* the test of the predicate is inverted
updateRecord_Inverted(P, N, rec) == IF rec \in P THEN rec ELSE N

\* updateRecords visitor: the record written to the temp file
updateRecord(P, N, rec) == IF rec \in P THEN N ELSE rec

\* the test of the predicate is inverted
deleteKeeps_Inverted(P, rec) == rec \in P

\* deleteRecords visitor: the record is kept (written to the temp file)
deleteKeeps(P, rec) == rec \notin P

\* the first filesystem call of an operation's work
StartWork(o) ==
    LET first == CASE o.kind \in {"add", "clear"} -> "write"
                   [] o.kind \in {"update", "delete"} -> "clearTmp"
                   [] OTHER -> "stat"
    IN  [o EXCEPT !.pc = first, !.pre = file,
                  !.w = IF o.kind = "add" THEN addRecordsWrites(o.R) ELSE <<>>]

\* microtasks run before the next filesystem completion: a waiter whose
\* awaited promise has settled resumes first
Ready(i) == ops[i].pc = "waiting" /\ RawSettled(ops[i].awaiting)
NoneReady == \A j \in DOMAIN ops : ~Ready(j)

\* an injected failure is allowed while the budget lasts
MayFail(ok) == ok \/ fails < scope.maxFails
Charge(ok) == fails' = IF ok THEN fails ELSE fails + 1

\* every call awaits the tracker, whatever waitForUnlock
awaitsLock_Always(o) == TRUE

\* lockAndExecute: if (waitForUnlock) { await this.lockedPromise }
awaitsLock(o) == o.wait

Issue(o) ==
    /\ Len(ops) < scope.maxOps
    /\ scope.seq => AllDone
    /\ IF awaitsLock(o)
       THEN /\ ops' = Append(ops, o)
            /\ UNCHANGED <<lockedPromise, lastStarted>>
       ELSE /\ ops' = Append(ops, StartWork(o))
            /\ lockedPromise' =
                   NewLockedPromise(lockedPromise, Len(ops) + 1, "outer", FALSE)
            /\ lastStarted' = [op |-> Len(ops) + 1, part |-> "outer"]
    /\ UNCHANGED <<file, tmp, fails, scope>>

addRecords == \E R \in scope.batches : Issue(NewOp("add", TRUE, {}, Undefined, R))

updateRecords ==
    \E P \in scope.preds, N \in scope.news : Issue(NewOp("update", TRUE, P, N, <<>>))

deleteRecords == \E P \in scope.preds : Issue(NewOp("delete", TRUE, P, Undefined, <<>>))

deleteAllRecords == Issue(NewOp("clear", TRUE, {}, Undefined, <<>>))

getAllRecords ==
    \E wfu \in BOOLEAN : Issue(NewOp("getAll", wfu, {}, Undefined, <<>>))

findRecord ==
    \E P \in scope.preds, wfu \in BOOLEAN : Issue(NewOp("find", wfu, P, Undefined, <<>>))

findRecords ==
    \E P \in scope.preds, wfu \in BOOLEAN :
        Issue(NewOp("findAll", wfu, P, Undefined, <<>>))

getNumRecords ==
    \E wfu \in BOOLEAN : Issue(NewOp("count", wfu, {}, Undefined, <<>>))

\* getNumRecords: getAllRecords(waitForUnlock).then((rc) => rc.length)
numRecords(o) == Len(o.out)

\* the public forEachRecord, with a visitor of the caller
forEachRecordCall ==
    \E v \in Visitors, wfu \in BOOLEAN :
        Issue([NewOp("forEach", wfu, {}, Undefined, <<>>) EXCEPT !.V = v])

\* lockAndExecute after "await this.lockedPromise": the work starts and the
\* call becomes the tracker
lockAndExecute(i) ==
    /\ Ready(i)
    /\ \A j \in 1..(i - 1) : ~(Ready(j) /\ ops[j].awaiting = ops[i].awaiting)
    /\ IF PromiseState(ops[i].awaiting) = "rejected"
       THEN /\ ops' = [ops EXCEPT ![i] = Reject(@, "await")]
            /\ UNCHANGED <<lockedPromise, lastStarted>>
       ELSE /\ ops' = [ops EXCEPT ![i] = StartWork(@)]
            /\ lockedPromise' = NewLockedPromise(lockedPromise, i, "outer", TRUE)
            /\ lastStarted' = [op |-> i, part |-> "outer"]
    /\ UNCHANGED <<file, tmp, fails, scope>>

\* addRecords / deleteAllRecords: this.writeFile(ndjsonFilename, ...) returns
writeFile(i) ==
    /\ ops[i].pc = "write" /\ NoneReady
    /\ \E ok \in BOOLEAN :
        /\ MayFail(ok) /\ Charge(ok)
        /\ IF ~ok
           THEN /\ ops' = [ops EXCEPT ![i] = Reject(@, "write")]
                /\ UNCHANGED file
           ELSE IF ops[i].kind = "clear"
           THEN /\ file' = FsWrite(<<>>)
                /\ ops' = [ops EXCEPT ![i] = Resolve(@)]
           ELSE /\ file' = FsAppend(file, Head(ops[i].w))
                /\ ops' = [ops EXCEPT ![i] =
                       IF Len(@.w) = 1 THEN Resolve([@ EXCEPT !.w = <<>>])
                       ELSE [@ EXCEPT !.w = Tail(ops[i].w)]]
    /\ UNCHANGED <<tmp, lockedPromise, lastStarted, scope>>

\* updateRecords / deleteRecords: tmpWriter.deleteAllRecords() returns, and
\* this.forEachRecord(..., false) starts its scan with fileExists
clearTmp(i) ==
    /\ ops[i].pc = "clearTmp" /\ NoneReady
    /\ \E ok \in BOOLEAN :
        /\ MayFail(ok) /\ Charge(ok)
        /\ IF ok
           THEN /\ tmp' = FsWrite(<<>>)
                /\ ops' = [ops EXCEPT ![i].pc = "stat"]
                /\ lockedPromise' = NewLockedPromise(lockedPromise, i, "scan", FALSE)
                /\ lastStarted' = [op |-> i, part |-> "scan"]
           ELSE /\ ops' = [ops EXCEPT ![i] = Reject(@, "clearTmp")]
                /\ UNCHANGED <<tmp, lockedPromise, lastStarted>>
    /\ UNCHANGED <<file, scope>>

\* what follows the end of the scan (rlInterface.close, filestream.close)
AfterScan(o) ==
    LET c == [o EXCEPT !.handle = FALSE]
    IN  CASE o.kind = "update" ->
               IF o.isUpdated THEN [c EXCEPT !.pc = "unlink"] ELSE Resolve(c)
          [] o.kind = "delete" ->
               [c EXCEPT !.pc = IF o.isUpdated THEN "unlink" ELSE "rmTmp"]
          [] OTHER -> Resolve(c)

\* the for-await loop: next line, or the end of the scan
ScanNext(o) == IF o.buf = <<>> THEN AfterScan(o) ELSE [o EXCEPT !.pc = "scan"]

\* the scan goes on to open the file without the test
fileExistsResult_Always(f) == TRUE

\* fileExists: fs.stat, resolve(false) on error
fileExistsResult(f) == f.ex

\* forEachRecord: this.fileExists(ndjsonFilename) returns
fileExists(i) ==
    /\ ops[i].pc = "stat" /\ NoneReady
    /\ ops' = [ops EXCEPT ![i] = IF fileExistsResult(file) THEN [@ EXCEPT !.pc = "open"]
                                 ELSE AfterScan(@)]
    /\ UNCHANGED <<file, tmp, lockedPromise, lastStarted, fails, scope>>

\* forEachRecord: the read stream opens the file and delivers its lines
createReadStream(i) ==
    /\ ops[i].pc = "open" /\ NoneReady
    /\ \E ok \in BOOLEAN :
        /\ MayFail(ok) /\ Charge(ok)
        /\ ops' = [ops EXCEPT ![i] =
               IF ok /\ file.ex
               THEN ScanNext([@ EXCEPT !.buf = file.lines, !.handle = TRUE])
               ELSE Reject(@, "open")]
    /\ UNCHANGED <<file, tmp, lockedPromise, lastStarted, scope>>

\* any value that is not true stops the loop
stops_Falsy(doContinue) == doContinue # "true"

\* forEachRecord: typeof doContinue !== "undefined" && !doContinue
stops(doContinue) == doContinue # "undefined" /\ doContinue = "false"

\* findRecord's visitor always returns true
findContinues_Always(isAccepted) == TRUE

\* findRecord's visitor: return !isAccepted
findContinues(isAccepted) == ~isAccepted

\* the visitor of each kind of operation, on a parsed record
Visit(o, rec) ==
    LET rest == [o EXCEPT !.buf = Tail(o.buf)]
    IN  CASE o.kind \in {"getAll", "count"} ->
               ScanNext([rest EXCEPT !.out = Append(@, rec)])
          [] o.kind = "findAll" ->
               ScanNext([rest EXCEPT !.out = IF rec \in o.P THEN Append(@, rec) ELSE @])
          [] o.kind = "forEach" ->
               IF stops(o.V[rec])
               THEN AfterScan([rest EXCEPT !.buf = <<>>, !.out = Append(@, rec)])
               ELSE ScanNext([rest EXCEPT !.out = Append(@, rec)])
          [] o.kind = "find" ->
               LET seen == [rest EXCEPT !.out = Append(@, rec),
                                        !.found = IF rec \in o.P THEN rec ELSE @]
               IN  IF stops(IF findContinues(rec \in o.P) THEN "true" ELSE "false")
                   THEN AfterScan([seen EXCEPT !.buf = <<>>])
                   ELSE ScanNext(seen)
          [] o.kind = "update" ->
               [o EXCEPT !.cur = updateRecord(o.P, o.N, rec), !.pc = "tmpAdd"]
          [] o.kind = "delete" ->
               IF deleteKeeps(o.P, rec)
               THEN [o EXCEPT !.cur = rec, !.pc = "tmpAdd"]
               ELSE ScanNext([rest EXCEPT !.isUpdated = TRUE])

\* a line that does not parse is skipped
onParseError_Skip(o) == ScanNext([o EXCEPT !.buf = Tail(o.buf)])

\* forEachRecord: JSON.parse throws inside the loop, the call rejects
onParseError(o) == Reject(o, "parse")

\* an exception leaves the for-await loop: rlInterface.close() and
\* filestream.close() are not reached, and the stream is closed only if it
\* had already read to the end of the file (autoClose)
Thrown(n, atEnd) ==
    IF IsDone(n) /\ n.failedAt \in {"parse", "tmpAdd"}
    THEN [n EXCEPT !.handle = @ /\ ~atEnd]
    ELSE n

\* forEachRecord: one iteration of the for-await loop
forEachRecord(i) ==
    /\ ops[i].pc = "scan" /\ NoneReady
    /\ LET o == ops[i]
           line == Head(o.buf)
       IN  \E atEnd \in BOOLEAN :
             ops' = [ops EXCEPT ![i] = Thrown(
               IF Trim(line) = "" THEN ScanNext([o EXCEPT !.buf = Tail(o.buf)])
               ELSE IF JsonParse(line) = ParseError THEN onParseError(o)
               ELSE Visit(o, JsonParse(line)), atEnd)]
    /\ UNCHANGED <<file, tmp, lockedPromise, lastStarted, fails, scope>>

\* the visitor's tmpWriter.addRecord(record) returns
tmpAddRecord(i) ==
    /\ ops[i].pc = "tmpAdd" /\ NoneReady
    /\ \E ok \in BOOLEAN :
        /\ MayFail(ok) /\ Charge(ok)
        /\ IF ok
           THEN /\ tmp' = FsAppend(tmp, <<JsonStringify(ops[i].cur)>>)
                /\ ops' = [ops EXCEPT ![i] =
                       ScanNext([@ EXCEPT !.buf = Tail(ops[i].buf), !.cur = Undefined,
                                   !.isUpdated = (ops[i].kind = "update") \/ @])]
           ELSE /\ \E atEnd \in BOOLEAN :
                     ops' = [ops EXCEPT ![i] = Thrown(Reject(@, "tmpAdd"), atEnd)]
                /\ UNCHANGED tmp
    /\ UNCHANGED <<file, lockedPromise, lastStarted, scope>>

\* this.deleteFile(ndjsonFilename).catch(...) returns: failure is ignored
deleteFile(i) ==
    /\ ops[i].pc = "unlink" /\ NoneReady
    /\ \E ok \in BOOLEAN :
        /\ MayFail(ok) /\ Charge(ok)
        /\ file' = IF ok THEN Absent ELSE file
    /\ ops' = [ops EXCEPT ![i].pc = "rename"]
    /\ UNCHANGED <<tmp, lockedPromise, lastStarted, scope>>

\* the failure of the rename is caught and not thrown again
onRenameError_Swallowed(o) == Resolve(o)

\* updateRecords: await this.renameFile(...); deleteRecords: .catch rethrows
onRenameError(o) == Reject(o, "rename")

\* this.renameFile(tmpFileName, ndjsonFilename) returns
renameFile(i) ==
    /\ ops[i].pc = "rename" /\ NoneReady
    /\ \E ok \in BOOLEAN :
        /\ MayFail(ok) /\ Charge(ok)
        /\ IF ok /\ tmp.ex
           THEN /\ file' = tmp
                /\ tmp' = Absent
                /\ ops' = [ops EXCEPT ![i] = Resolve(@)]
           ELSE /\ ops' = [ops EXCEPT ![i] = onRenameError(@)]
                /\ UNCHANGED <<file, tmp>>
    /\ UNCHANGED <<lockedPromise, lastStarted, scope>>

\* deleteRecords, nothing deleted: this.deleteFile(tmpFileName).catch(...)
deleteTmpFile(i) ==
    /\ ops[i].pc = "rmTmp" /\ NoneReady
    /\ \E ok \in BOOLEAN :
        /\ MayFail(ok) /\ Charge(ok)
        /\ tmp' = IF ok THEN Absent ELSE tmp
    /\ ops' = [ops EXCEPT ![i] = Resolve(@)]
    /\ UNCHANGED <<file, lockedPromise, lastStarted, scope>>

(* --------------------------- specification ----------------------------- *)
InitFiles ==
    {Absent} \cup {[ex |-> TRUE, lines |-> l] : l \in SeqsUpTo(Lines, MaxInitLen)}

RaceFiles ==
    {f \in InitFiles : f.lines \in {<<>>, <<"1", "2">>, <<"2", "x">>}}

\* the state after construction
Constructed ==
    /\ tmp = Absent
    /\ ops = <<>>
    /\ lockedPromise = ResolvedPromise
    /\ lastStarted = [op |-> 0, part |-> "init"]
    /\ fails = 0

Init == Constructed /\ scope = RaceScope /\ file \in RaceFiles

LiveInit == Constructed /\ scope = LiveScope /\ file \in RaceFiles

SeqInit == Constructed /\ scope = SeqScope /\ file \in InitFiles

ReadFiles ==
    {Absent} \cup {[ex |-> TRUE, lines |-> l] : l \in SeqsUpTo(Lines, MaxReadLen)}

ReadInit == Constructed /\ scope = ReadScope /\ file \in ReadFiles

Step(i) ==
    \/ lockAndExecute(i)
    \/ writeFile(i)
    \/ clearTmp(i)
    \/ fileExists(i)
    \/ createReadStream(i)
    \/ forEachRecord(i)
    \/ tmpAddRecord(i)
    \/ deleteFile(i)
    \/ renameFile(i)
    \/ deleteTmpFile(i)

Next ==
    \/ addRecords
    \/ updateRecords
    \/ deleteRecords
    \/ deleteAllRecords
    \/ getAllRecords
    \/ findRecord
    \/ \E i \in DOMAIN ops : lockAndExecute(i)
    \/ \E i \in DOMAIN ops : writeFile(i)
    \/ \E i \in DOMAIN ops : clearTmp(i)
    \/ \E i \in DOMAIN ops : fileExists(i)
    \/ \E i \in DOMAIN ops : createReadStream(i)
    \/ \E i \in DOMAIN ops : forEachRecord(i)
    \/ \E i \in DOMAIN ops : tmpAddRecord(i)
    \/ \E i \in DOMAIN ops : deleteFile(i)
    \/ \E i \in DOMAIN ops : renameFile(i)
    \/ \E i \in DOMAIN ops : deleteTmpFile(i)

\* with the other read methods of the interface
ReadNext ==
    \/ Next
    \/ findRecords
    \/ getNumRecords
    \/ forEachRecordCall

Spec == Init /\ [][Next]_vars

ReadSpec == ReadInit /\ [][ReadNext]_vars

SeqSpec == SeqInit /\ [][Next]_vars

\* every filesystem call returns and every microtask runs: a step that can
\* be taken is taken
LiveSpec == LiveInit /\ [][Next]_vars /\ WF_vars(\E i \in DOMAIN ops : Step(i))

(* ---------------------------- properties ------------------------------- *)
InFlight(o) == o.pc \notin {"waiting", "done"}
Succeeded(o) == IsDone(o) /\ o.failedAt = ""
Replacing(o) == o.kind \in {"update", "delete"}

\* the operation was issued on an idle store and nothing was issued since
Alone(i) == i = Len(ops) /\ ops[i].quiet

MapSeq(f(_), s) == [k \in 1..Len(s) |-> f(s[k])]

\* C1: at no instant are two ordered operations both between the start and
\* the completion of their file I/O.
C1_OneOrderedInFlight ==
    Cardinality({i \in DOMAIN ops : ops[i].wait /\ InFlight(ops[i])}) <= 1

\* C2: an ordered operation begins its work only after every operation
\* issued before it on the store has completed.
C2_BeginsAfterPrior ==
    [][\A i \in DOMAIN ops :
          (ops[i].pc = "waiting" /\ ops'[i].pc # "waiting")
              => \A j \in 1..(i - 1) : IsDone(ops[j])]_vars

\* what updateRecords / deleteRecords are meant to leave in the backing file
IntendedRecords(o) ==
    LET recs == RecordsOf(o.pre.lines)
        NewOrOld(rec) == IF rec \in o.P THEN o.N ELSE rec
        Kept(rec) == rec \notin o.P
    IN  IF o.kind = "update" THEN MapSeq(NewOrOld, recs) ELSE SelectSeq(recs, Kept)

IntendedFile(o) == [ex |-> TRUE, lines |-> MapSeq(JsonStringify, IntendedRecords(o))]

\* C3: for updateRecords / deleteRecords run alone, from the moment the
\* temporary file is populated until the rename has succeeded the backing
\* file equals its pre-call content; after a successful rename it equals the
\* intended content; it is never anything else.
C3_CrashWindowSafe ==
    \A i \in DOMAIN ops :
        Alone(i) /\ Replacing(ops[i]) /\ ops[i].pc # "waiting" =>
            LET o == ops[i]
            IN  /\ (o.pc \in {"unlink", "rename"} \/ o.failedAt = "rename")
                       => file = o.pre
                /\ (Succeeded(o) /\ o.isUpdated) => file = IntendedFile(o)
                /\ file \in {o.pre, IntendedFile(o)}

\* C4: after updateRecords(P, N) completes alone on records r1..rn, the
\* backing file holds n records, N where P(ri) holds and ri elsewhere.
C4_UpdateReplacesMatches ==
    \A i \in DOMAIN ops :
        Alone(i) /\ ops[i].kind = "update" /\ Succeeded(ops[i]) =>
            LET recs == RecordsOf(ops[i].pre.lines)
            IN  /\ Len(RecordsOf(file.lines)) = Len(recs)
                /\ \A k \in 1..Len(recs) :
                       RecordsOf(file.lines)[k] =
                           IF recs[k] \in ops[i].P THEN ops[i].N ELSE recs[k]

\* C4 witness: an update completed alone that replaced one record and kept another
C4_Witness ==
    \E i \in DOMAIN ops :
        /\ Alone(i) /\ ops[i].kind = "update" /\ Succeeded(ops[i])
        /\ LET recs == RecordsOf(ops[i].pre.lines)
           IN  /\ \E k \in 1..Len(recs) : recs[k] \in ops[i].P /\ recs[k] # ops[i].N
               /\ \E k \in 1..Len(recs) : recs[k] \notin ops[i].P

\* C5: after deleteRecords(P) completes alone, the backing file holds the
\* pre-call records that do not satisfy P, in order (an empty file when all
\* satisfy P); when none satisfies P the file is as it was before the call.
C5_DeleteRemovesMatches ==
    \A i \in DOMAIN ops :
        Alone(i) /\ ops[i].kind = "delete" /\ Succeeded(ops[i]) =>
            LET recs == RecordsOf(ops[i].pre.lines)
                Kept(rec) == rec \notin ops[i].P
            IN  /\ RecordsOf(file.lines) = SelectSeq(recs, Kept)
                /\ (\A k \in 1..Len(recs) : Kept(recs[k])) => file = ops[i].pre
                /\ (recs # <<>> /\ \A k \in 1..Len(recs) : ~Kept(recs[k]))
                       => file = [ex |-> TRUE, lines |-> <<>>]

\* C5 witness: a delete completed alone that removed one record and kept another
C5_Witness ==
    \E i \in DOMAIN ops :
        /\ Alone(i) /\ ops[i].kind = "delete" /\ Succeeded(ops[i])
        /\ LET recs == RecordsOf(ops[i].pre.lines)
           IN  /\ \E k \in 1..Len(recs) : recs[k] \in ops[i].P
               /\ \E k \in 1..Len(recs) : recs[k] \notin ops[i].P

\* C6: addRecords(R) on an empty or absent backing file, then (once it has
\* completed) getAllRecords, returns exactly R in the same order.
C6_AppendReadRoundTrip ==
    (/\ Len(ops) = 2
     /\ ops[1].kind = "add" /\ Succeeded(ops[1]) /\ ops[1].pre.lines = <<>>
     /\ ops[2].kind = "getAll" /\ Succeeded(ops[2]) /\ ops[2].quiet)
        => ops[2].out = ops[1].R

\* C6 witness: two different records were appended to an absent file and read back
C6_Witness ==
    /\ Len(ops) = 2
    /\ ops[1].kind = "add" /\ Succeeded(ops[1]) /\ ~ops[1].pre.ex
    /\ ops[2].kind = "getAll" /\ Succeeded(ops[2]) /\ ops[2].quiet
    /\ Len(ops[1].R) = 2 /\ ops[1].R[1] # ops[1].R[2]

\* C7: two addRecords calls with batches R1 and R2, the second issued before
\* the first completes: once both have completed the file holds its former
\* lines followed by the lines of R1 and of R2, each batch contiguous.
C7_AppendsDoNotInterleave ==
    (/\ Len(ops) = 2
     /\ ops[1].kind = "add" /\ Succeeded(ops[1])
     /\ ops[2].kind = "add" /\ Succeeded(ops[2]) /\ ~ops[2].quiet)
        => LET old == ops[1].pre.lines
               b1 == MapSeq(JsonStringify, ops[1].R)
               b2 == MapSeq(JsonStringify, ops[2].R)
           IN  file.ex /\ file.lines \in {old \o b1 \o b2, old \o b2 \o b1}

\* C7 witness: both calls were in flight together with two records each, and completed
C7_Witness ==
    /\ Len(ops) = 2
    /\ ops[1].kind = "add" /\ Succeeded(ops[1]) /\ Len(ops[1].R) = 2
    /\ ops[2].kind = "add" /\ Succeeded(ops[2]) /\ Len(ops[2].R) = 2
    /\ ~ops[2].quiet
    /\ ops[2].pre = ops[1].pre

\* C8: the tracker lockedPromise, and the promise any ordered operation
\* waits on, never rejects; no operation fails for the failure of another:
\* an ordered operation issued after a failed one begins its own work.
C8_TrackerNeverRejects ==
    /\ PromiseState(lockedPromise) # "rejected"
    /\ \A i \in DOMAIN ops :
        /\ PromiseState(ops[i].awaiting) # "rejected"
        /\ ops[i].failedAt # "await"

\* C8 witness: an ordered operation waited on an operation that failed, and did its work
C8_Witness ==
    \E i \in DOMAIN ops :
        /\ ops[i].wait /\ ops[i].awaiting.op # 0
        /\ RawRejected(ops[i].awaiting)
        /\ Succeeded(ops[i])

\* C9: every lockAndExecute call settles for its caller, and once settled
\* its outcome never changes.
C9_EverySettlesOnce ==
    /\ \A i \in 1..MaxOps :
           (Len(ops) >= i) ~> (Len(ops) >= i /\ IsDone(ops[i]))
    /\ [][\A i \in DOMAIN ops : IsDone(ops[i]) => ops'[i] = ops[i]]_vars

\* C9 witness: an operation that had to wait behind another one has settled,
\* and so has one that failed
C9_Witness ==
    /\ \E i \in DOMAIN ops :
           ops[i].wait /\ ops[i].awaiting.op # 0 /\ ~ops[i].quiet /\ IsDone(ops[i])
    /\ \E i \in DOMAIN ops : IsDone(ops[i]) /\ ops[i].failedAt # ""

IsRead(o) == o.kind \in {"getAll", "find", "findAll", "count", "forEach"}

\* C11: a read called with waitForUnlock=false never waits: from the call on
\* it is past the await of lockAndExecute, whatever is in flight or queued.
C11_NonWaitingReadBeginsAtOnce ==
    \A i \in DOMAIN ops : IsRead(ops[i]) /\ ~ops[i].wait => ops[i].pc # "waiting"

\* a non-waiting read issued while an earlier operation is doing its work and
\* another one is queued
C11_Witness ==
    \E i \in DOMAIN ops :
        /\ IsRead(ops[i]) /\ ~ops[i].wait
        /\ ops[i].busy # {}
        /\ \E j \in 1..(i - 1) : ops[j].pc = "waiting"
        /\ ops[i].pc = "stat"

\* C12: updateRecords / deleteRecords run alone on a file none of whose
\* records satisfies the predicate never reach the unlink or the rename, and
\* the backing file stays what it was.
C12_SwapOnlyIfMatched ==
    \A i \in DOMAIN ops :
        ( /\ Alone(i) /\ Replacing(ops[i]) /\ ops[i].pc # "waiting"
          /\ \A k \in 1..Len(ops[i].pre.lines) :
                 JsonParse(ops[i].pre.lines[k]) \notin ops[i].P )
        => /\ ops[i].pc \notin {"unlink", "rename"}
           /\ file = ops[i].pre

\* the operation has written the temporary file (tmpWriter.deleteAllRecords
\* has succeeded)
WroteTmp(o) == o.pc \notin {"waiting", "clearTmp"} /\ o.failedAt # "clearTmp"

\* C13: from the first write of the temporary file by an updateRecords /
\* deleteRecords call onward, the backing file or the temporary file exists
\* (read for a store whose backing file existed when each call began its work).
C13_OneOfFilesExists ==
    \A i \in DOMAIN ops :
        ( /\ Replacing(ops[i]) /\ WroteTmp(ops[i])
          /\ \A j \in DOMAIN ops : ops[j].pc = "waiting" \/ ops[j].pre.ex )
        => file.ex \/ tmp.ex

\* C14: once a call has settled, the read stream it opened is closed, on
\* every exit path of forEachRecord.
C14_HandleReleased ==
    \A i \in DOMAIN ops : IsDone(ops[i]) => ~ops[i].handle

\* the line under the scan does not parse
BadLine(line) == Trim(line) # "" /\ JsonParse(line) = ParseError
HasBadLine(f) == \E k \in 1..Len(f.lines) : BadLine(f.lines[k])

\* C15: updateRecords / deleteRecords run alone on a file with a line that
\* does not parse settle with failure only, never reach unlink or rename, and
\* leave the backing file as it was.
C15_ParseErrorAborts ==
    \A i \in DOMAIN ops :
        ( /\ Alone(i) /\ Replacing(ops[i]) /\ ops[i].pc # "waiting"
          /\ HasBadLine(ops[i].pre) )
        => /\ file = ops[i].pre
           /\ ops[i].pc \notin {"unlink", "rename", "rmTmp"}
           /\ IsDone(ops[i]) => ops[i].failedAt # ""

\* the scan has copied a record, met the bad line and the call has rejected
C15_Witness ==
    \E i \in DOMAIN ops :
        /\ Alone(i) /\ Replacing(ops[i]) /\ HasBadLine(ops[i].pre)
        /\ IsDone(ops[i]) /\ ops[i].failedAt = "parse"
        /\ tmp.ex /\ tmp.lines # <<>>
        /\ file = ops[i].pre

\* C16: in the swap, the step after the unlink is the rename whether or not
\* the unlink failed, and a rename that has not moved the temporary file
\* settles the call with failure.
C16_UnlinkIgnoredRenameReported ==
    [][\A i \in DOMAIN ops :
          /\ ops[i].pc = "unlink" /\ ops'[i].pc # "unlink"
             => ops'[i].pc = "rename"
          /\ ops[i].pc = "rename" /\ ops'[i].pc # "rename" /\ tmp' = tmp
             => IsDone(ops'[i]) /\ ops'[i].failedAt = "rename"
          /\ ops[i].pc = "rename" /\ ops'[i].pc # "rename" /\ tmp' # tmp
             => Succeeded(ops'[i]) /\ file' = tmp]_vars

\* the unlink has failed (the backing file is still there) and the call is
\* at its rename
C16_Witness ==
    \E i \in DOMAIN ops :
        /\ Alone(i) /\ Replacing(ops[i])
        /\ ops[i].pc = "rename"
        /\ file.ex /\ file = ops[i].pre

\* the index of the first element of s in S, or Len(s) + 1
RECURSIVE FirstIn(_, _)
FirstIn(s, S) ==
    IF s = <<>> \/ Head(s) \in S THEN 1 ELSE 1 + FirstIn(Tail(s), S)

\* the whole file parses
Parses(f) == ~HasBadLine(f)

\* the records before the first line that does not parse
RECURSIVE ParsedPrefix(_)
ParsedPrefix(lines) ==
    IF lines = <<>> \/ BadLine(Head(lines)) THEN <<>>
    ELSE IF Trim(Head(lines)) = "" THEN ParsedPrefix(Tail(lines))
    ELSE <<JsonParse(Head(lines))>> \o ParsedPrefix(Tail(lines))

\* C17: findRecord run alone, when it succeeds, returns the first record in
\* file order that satisfies P, or undefined when there is none, and has
\* evaluated P on the records up to that one and on no other.
C17_FindRecordFirstMatch ==
    \A i \in DOMAIN ops :
        Alone(i) /\ ops[i].kind = "find" /\ Succeeded(ops[i])
        => LET o == ops[i]
               recs == ParsedPrefix(o.pre.lines)
               k == FirstIn(recs, o.P)
           IN  /\ Parses(o.pre) \/ k <= Len(recs)
               /\ o.found = IF k <= Len(recs) THEN recs[k] ELSE Undefined
               /\ o.out = SubSeq(recs, 1, IF k <= Len(recs) THEN k ELSE Len(recs))

\* the third of the records is the first that matches, and three were visited
C17_Witness ==
    \E i \in DOMAIN ops :
        /\ Alone(i) /\ ops[i].kind = "find" /\ IsDone(ops[i])
        /\ Len(ops[i].pre.lines) > 3
        /\ Len(RecordsOf(ops[i].pre.lines)) > 3
        /\ FirstIn(RecordsOf(ops[i].pre.lines), ops[i].P) = 3
        /\ Len(ops[i].out) = 3 /\ ops[i].found = ops[i].out[3]

\* C18: a read run alone on a store whose backing file is absent opens no
\* stream, calls its visitor on nothing and succeeds: getAllRecords and
\* findRecords give the empty sequence, findRecord undefined, getNumRecords 0.
C18_AbsentFileReadsAsEmpty ==
    \A i \in DOMAIN ops :
        Alone(i) /\ IsRead(ops[i]) /\ ops[i].pc # "waiting" /\ ~ops[i].pre.ex
        => /\ ops[i].pc \in {"stat", "done"}
           /\ ~ops[i].handle
           /\ ops[i].out = <<>> /\ ops[i].found = Undefined
           /\ IsDone(ops[i]) => Succeeded(ops[i]) /\ numRecords(ops[i]) = 0

\* getNumRecords has settled on a store without backing file
C18_Witness ==
    \E i \in DOMAIN ops :
        /\ Alone(i) /\ ops[i].kind = "count" /\ ~ops[i].pre.ex
        /\ Succeeded(ops[i]) /\ numRecords(ops[i]) = 0
        /\ ~file.ex

\* the records a forEachRecord call hands to its visitor: those of the file,
\* in order, through the first one on which the visitor returns false
RECURSIVE VisitedBy(_, _)
VisitedBy(V, recs) ==
    IF recs = <<>> THEN <<>>
    ELSE IF V[Head(recs)] = "false" THEN <<Head(recs)>>
    ELSE <<Head(recs)>> \o VisitedBy(V, Tail(recs))

\* C19: a forEachRecord call run alone that succeeds has visited the records
\* of the non-blank lines in file order, up to and including the first one on
\* which the visitor returned false; true and undefined both continue.
C19_ContinuationFlag ==
    \A i \in DOMAIN ops :
        Alone(i) /\ ops[i].kind = "forEach" /\ Succeeded(ops[i])
        => ops[i].out = VisitedBy(ops[i].V, ParsedPrefix(ops[i].pre.lines))

\* the visitor returned undefined, then false with a record left, and a
\* blank line was skipped
C19_Witness ==
    \E i \in DOMAIN ops :
        /\ Alone(i) /\ ops[i].kind = "forEach" /\ Succeeded(ops[i])
        /\ ops[i].pre.lines = <<"1", " ", "2", "1">>
        /\ ops[i].V = [rec \in Records |-> IF rec = 1 THEN "undefined" ELSE "false"]
        /\ ops[i].out = <<1, 2>>

\* operation y was issued while x, an updateRecords / deleteRecords call, was
\* in flight with its inner scan started
IssuedDuringReplace(y, x) ==
    /\ ops[y].wait
    /\ x \in ops[y].busy /\ Replacing(ops[x])
    /\ ops[y].tail = [op |-> x, part |-> "scan"]

\* C20: an ordered operation issued during the scan or the swap of an
\* updateRecords / deleteRecords call does not begin before that call has
\* settled, and the records of an addRecords so issued are in the backing
\* file once both have succeeded.
C20_OrderedWaitsForReplace ==
    \A y \in DOMAIN ops : \A x \in DOMAIN ops :
        IssuedDuringReplace(y, x)
        => /\ ops[y].pc # "waiting" => IsDone(ops[x])
           /\ ( /\ Len(ops) = 2 /\ ops[y].kind = "add"
                /\ Succeeded(ops[x]) /\ Succeeded(ops[y]) )
              => \A k \in 1..Len(ops[y].R) :
                     \E n \in 1..Len(file.lines) :
                         file.lines[n] = JsonStringify(ops[y].R[k])

\* C21: once an updateRecords / deleteRecords call run alone has succeeded,
\* the temporary file does not exist, whatever the predicate and the store.
C21_TmpGoneAfterSuccess ==
    \A i \in DOMAIN ops :
        Alone(i) /\ Replacing(ops[i]) /\ Succeeded(ops[i]) => ~tmp.ex

====
